---- MODULE Spec2Model ----
(***************************************************************************)
(* py-clean-cli: the command registry (CommandRegistryHelper), the         *)
(* registration decorator (command) and the per-parser commands manager    *)
(* (CommandsManager), modelled as one state machine.                       *)
(*                                                                         *)
(* Python objects are heap cells: a registry object is an index into       *)
(* registry_heap, a manager object an index into manager_heap.  A dict is  *)
(* a sequence of <<key, value>> pairs in insertion order, as CPython keeps *)
(* it.  An exception leaving a call is recorded in last.exc.               *)
(***************************************************************************)
EXTENDS Integers, Sequences, FiniteSets, TLC

\* ------------------------------------------------------------------ inputs
None == "None"
\* None where an object reference is expected (object references are 1, 2, ...)
NoObject == 0
\* register takes any string as a name, the empty one included
Names == {"", "a", "b"}
Classes == {"K1", "K2"}
HelpTexts == {"h"}
Omitted == "<omitted>"
Parsers == {"p1", "p2"}

\* Cap on the registry objects ever allocated (the code allocates one).
MaxRegistryObjects == 2
\* Cap on the manager objects ever allocated (the code allocates one per parser).
MaxManagerObjects == 2
\* Cap on the length of a run: the number of calls made on the library.
MaxCalls == 6

VARIABLES
    registry_instance,   \* CommandRegistryHelper._instance
    COMMAND_REGISTRY,    \* module global, None until the module body has run
    registry_heap,       \* registry object -> its _command_cache
    command_name,        \* class -> its command_name class attribute
    command_help,        \* class -> its command_help class attribute
    last,                \* the last call: operation, arguments, outcome
    names_since_clear,   \* names passed to register since the last clear_registry
    ever_registered,     \* names ever passed to register
    manager_instances,   \* CommandsManager._instances, keyed by id(parser)
    manager_heap,        \* manager object -> its fields
    parser_subparsers,   \* parser -> it already has a sub-command builder
    parser_commands,     \* parser -> the sub-command names added to it
    lru,                 \* the lru_cache of get_command_class, oldest first
    calls,               \* the number of calls made so far
    parser_dest,         \* parser -> sub-command name -> the class bound to it
    sys_argv,            \* the process arguments read by the last call
    exec_log,            \* the exec() invocations made by the last call
    file_fault,          \* command file -> what is wrong with its source, if anything
    sys_modules,         \* sys.modules: the files imported under a dotted name
    scan,                \* the last call's scan: files found, attempted, loaded
    fixture              \* reset_registry: a test is running, and original_cache

registry_vars == <<registry_instance, COMMAND_REGISTRY, registry_heap>>
class_vars == <<command_name, command_help>>
history_vars == <<names_since_clear, ever_registered>>
manager_vars == <<manager_instances, manager_heap, parser_subparsers,
                  parser_commands, lru, parser_dest>>
\* A call other than discover_commands scans nothing and imports nothing
NoScan == scan' = <<>> /\ UNCHANGED <<file_fault, sys_modules, fixture>>
\* A call other than parse_and_execute reads no process arguments, runs no
\* command and scans nothing
NoExec == sys_argv' = <<>> /\ exec_log' = <<>> /\ NoScan

vars == <<registry_instance, COMMAND_REGISTRY, registry_heap, command_name,
          command_help, last, names_since_clear, ever_registered,
          manager_instances, manager_heap, parser_subparsers, parser_commands, lru,
          calls, parser_dest, sys_argv, exec_log, file_fault, sys_modules, scan,
          fixture>>

\* One more call, within the cap
Tick == calls < MaxCalls /\ calls' = calls + 1

\* ------------------------------------------------------------------ dicts
DictHas(d, k) == \E i \in DOMAIN d : d[i][1] = k

\* dict.get(k): the value, or None
DictGet(d, k) ==
    IF DictHas(d, k) THEN d[CHOOSE i \in DOMAIN d : d[i][1] = k][2] ELSE None

\* d[k] = v: an existing key keeps its position, a new key goes last
DictSet(d, k, v) ==
    IF DictHas(d, k)
    THEN [i \in DOMAIN d |-> IF d[i][1] = k THEN <<k, v>> ELSE d[i]]
    ELSE Append(d, <<k, v>>)

\* list(d.values())
DictValues(d) == [i \in DOMAIN d |-> d[i][2]]

\* A call record: what was called, with what, and how it ended (result, or exc)
Call(op, name, help, cls, parser, result, exc) ==
    [op |-> op, name |-> name, help |-> help, cls |-> cls, parser |-> parser,
     result |-> result, exc |-> exc]

\* ------------------------------------------------------- CommandRegistryHelper
\* __new__: the object a call of the class yields
\* (RegistryNew_AlwaysAllocate: the _instance test left out)
RegistryNew_AlwaysAllocate(inst, heap) == Len(heap) + 1

RegistryNew(inst, heap) ==
    IF inst = NoObject THEN Len(heap) + 1 ELSE inst

\* The dataclass __init__ that runs on the object __new__ returned:
\* _command_cache = dc_field(default_factory=dict, init=False)
RegistryInit(heap, obj) ==
    IF obj > Len(heap) THEN Append(heap, <<>>) ELSE [heap EXCEPT ![obj] = <<>>]

\* The cache of the object COMMAND_REGISTRY names
TheCache == registry_heap[COMMAND_REGISTRY]

\* register(name, help_text, command_class): the cache afterwards
RegisterCache(cache, name, cls) == DictSet(cache, name, cls)

\* register: the class attribute stamped on command_class
\* (Stamp_Skip: the assignment left out)
Stamp_Skip(attr, cls, value) == attr

Stamp(attr, cls, value) == [attr EXCEPT ![cls] = value]

\* get_command(name)
get_command(name) == DictGet(TheCache, name)

\* get_all_commands()
get_all_commands == DictValues(TheCache)

\* clear_registry(): the cache afterwards
\* (ClearCache_KeepFirst: one entry survives)
ClearCache_KeepFirst(cache) == IF cache = <<>> THEN cache ELSE <<cache[1]>>

ClearCache(cache) == <<>>

\* CommandRegistryHelper(...) as an expression: __new__, then __init__
RegistryConstruct(op) ==
    LET obj == RegistryNew(registry_instance, registry_heap) IN
    /\ obj <= MaxRegistryObjects
    /\ registry_instance' = obj
    /\ registry_heap' = RegistryInit(registry_heap, obj)
    /\ last' = Call(op, None, None, None, None, obj, None)

\* COMMAND_REGISTRY = CommandRegistryHelper.get_instance(), the module body
ImportRegistryModule ==
    /\ Tick
    /\ COMMAND_REGISTRY = NoObject
    /\ RegistryConstruct("import")
    /\ COMMAND_REGISTRY' = registry_instance'
    /\ NoExec
    /\ UNCHANGED <<class_vars, history_vars, manager_vars>>

\* CommandRegistryHelper()
RegistryCtor ==
    /\ Tick
    /\ COMMAND_REGISTRY # NoObject
    /\ RegistryConstruct("CommandRegistryHelper")
    /\ NoExec
    /\ UNCHANGED <<COMMAND_REGISTRY, class_vars, history_vars, manager_vars>>

\* CommandRegistryHelper.get_instance()
RegistryGetInstance ==
    /\ Tick
    /\ COMMAND_REGISTRY # NoObject
    /\ RegistryConstruct("get_instance")
    /\ NoExec
    /\ UNCHANGED <<COMMAND_REGISTRY, class_vars, history_vars, manager_vars>>

\* The state change of COMMAND_REGISTRY.register(name, help_text, cls)
RegisterEffect(name, help, cls) ==
    /\ command_name' = Stamp(command_name, cls, name)
    /\ command_help' = Stamp(command_help, cls, help)
    /\ registry_heap' = [registry_heap EXCEPT
                            ![COMMAND_REGISTRY] = RegisterCache(@, name, cls)]
    /\ names_since_clear' = names_since_clear \cup {name}
    /\ ever_registered' = ever_registered \cup {name}

\* COMMAND_REGISTRY.register(name, help_text, cls)
Register(name, help, cls) ==
    /\ Tick
    /\ COMMAND_REGISTRY # NoObject
    /\ RegisterEffect(name, help, cls)
    /\ last' = Call("register", name, help, cls, None, None, None)
    /\ NoExec
    /\ UNCHANGED <<registry_instance, COMMAND_REGISTRY, manager_vars>>

\* COMMAND_REGISTRY.get_command(name)
GetCommand(name) ==
    /\ Tick
    /\ COMMAND_REGISTRY # NoObject
    /\ last' = Call("get_command", name, None, None, None, get_command(name), None)
    /\ NoExec
    /\ UNCHANGED <<registry_vars, class_vars, history_vars, manager_vars>>

\* COMMAND_REGISTRY.get_all_commands()
GetAllCommands ==
    /\ Tick
    /\ COMMAND_REGISTRY # NoObject
    /\ last' = Call("get_all_commands", None, None, None, None, get_all_commands, None)
    /\ NoExec
    /\ UNCHANGED <<registry_vars, class_vars, history_vars, manager_vars>>

\* COMMAND_REGISTRY.clear_registry()
ClearRegistry ==
    /\ Tick
    /\ COMMAND_REGISTRY # NoObject
    /\ registry_heap' = [registry_heap EXCEPT ![COMMAND_REGISTRY] = ClearCache(@)]
    /\ names_since_clear' = {}
    /\ last' = Call("clear_registry", None, None, None, None, None, None)
    /\ NoExec
    /\ UNCHANGED <<registry_instance, COMMAND_REGISTRY, class_vars, ever_registered,
                   manager_vars>>

\* ------------------------------------------------------------------ command
\* def command(name, help_text=""): the help text the decorator registers
DecoratorHelp(help) == IF help = Omitted THEN "" ELSE help

\* what decorator(cls) returns
\* (DecoratorReturn_Nothing: the return statement left out)
DecoratorReturn_Nothing(cls) == None

DecoratorReturn(cls) == cls

\* @command(name, help_text) applied to cls
Command(name, help, cls) ==
    /\ Tick
    /\ COMMAND_REGISTRY # NoObject
    /\ RegisterEffect(name, DecoratorHelp(help), cls)
    /\ last' = Call("command", name, help, cls, None, DecoratorReturn(cls), None)
    /\ NoExec
    /\ UNCHANGED <<registry_instance, COMMAND_REGISTRY, manager_vars>>

\* ------------------------------------------------------------ CommandsManager
\* id(parser): the parsers of the model are distinct live objects
id(parser) == parser

\* __new__(cls, parser): the object a call of the class yields
ManagerNew(insts, heap, parser) ==
    IF insts[id(parser)] = NoObject THEN Len(heap) + 1 ELSE insts[id(parser)]

\* The fields the dataclass __init__ assigns: parser, subparsers = None,
\* commands = dict(), registered_parsers = set()
ManagerFields(parser) ==
    [parser |-> parser, subparsers |-> None, commands |-> <<>>,
     registered_parsers |-> {}]

\* parser.add_subparsers(dest="command", required=True) succeeds: argparse
\* refuses a second sub-command builder on one parser (parser.error, SystemExit)
AddSubparsersOk(parser) == ~parser_subparsers[parser]

\* __post_init__: self.subparsers = self.parser.add_subparsers(...)
PostInit(fields) ==
    IF AddSubparsersOk(fields.parser)
    THEN [fields EXCEPT !.subparsers = fields.parser]
    ELSE fields

\* CommandsManager(parser) as an expression: __new__, __init__, __post_init__
ManagerConstruct(op, parser) ==
    LET obj == ManagerNew(manager_instances, manager_heap, parser)
        fields == PostInit(ManagerFields(parser))
        ok == AddSubparsersOk(parser)
    IN  /\ obj <= MaxManagerObjects
        /\ manager_instances' = [manager_instances EXCEPT ![id(parser)] = obj]
        /\ manager_heap' = IF obj > Len(manager_heap)
                           THEN Append(manager_heap, fields)
                           ELSE [manager_heap EXCEPT ![obj] = fields]
        /\ parser_subparsers' = [parser_subparsers EXCEPT ![parser] = TRUE]
        /\ last' = Call(op, None, None, None, parser,
                        IF ok THEN obj ELSE NoObject,
                        IF ok THEN None ELSE "SystemExit")
        /\ NoExec
        /\ UNCHANGED <<registry_vars, class_vars, history_vars,
                       parser_commands, lru, parser_dest>>

\* CommandsManager.get_instance(parser)
ManagerGetInstance(parser) ==
    /\ Tick
    /\ COMMAND_REGISTRY # NoObject
    /\ ManagerConstruct("CommandsManager.get_instance", parser)

\* CommandsManager(parser)
ManagerCtor(parser) ==
    /\ Tick
    /\ COMMAND_REGISTRY # NoObject
    /\ ManagerConstruct("CommandsManager", parser)

\* A manager together with the sub-commands of its parser, and the exception
\* that ended the call, if any
World(m) ==
    [mgr |-> manager_heap[m], added |-> parser_commands[manager_heap[m].parser],
     dest |-> parser_dest[manager_heap[m].parser], exc |-> None]

\* register_command(command_class) on the manager of w
register_command(w, cls) ==
    LET name == command_name[cls] IN
    IF w.exc # None THEN w
    ELSE IF name \in w.mgr.registered_parsers THEN w
    ELSE IF w.mgr.subparsers = None THEN [w EXCEPT !.exc = "AttributeError"]
    ELSE IF name \in w.added THEN [w EXCEPT !.exc = "ArgumentError"]
    ELSE [w EXCEPT !.added = @ \cup {name},
                   !.dest = DictSet(@, name, cls),
                   !.mgr.commands = DictSet(@, name, cls),
                   !.mgr.registered_parsers = @ \cup {name}]

\* for cmd_class in all_commands: self.register_command(cmd_class)
RECURSIVE register_each(_, _)
register_each(w, all_commands) ==
    IF all_commands = <<>> THEN w
    ELSE register_each(register_command(w, Head(all_commands)), Tail(all_commands))

\* The body of register_all_commands(): an empty registry is only warned about
\* (register_all_commands_EmptyRaises: an empty registry treated as an error)
register_all_commands_EmptyRaises(w, all_commands) ==
    IF all_commands = <<>> THEN [w EXCEPT !.exc = "ValueError"]
    ELSE register_each(w, all_commands)

register_all_commands(w, all_commands) == register_each(w, all_commands)

\* Store the world w as the state of manager m: commands and
\* _registered_parsers are per-instance fields (default_factory)
\* (Commit_Shared: one mapping and one set shared by every manager)
Commit_Shared(m, w) ==
    /\ manager_heap' = [i \in DOMAIN manager_heap |->
            [manager_heap[i] EXCEPT !.commands = w.mgr.commands,
                                    !.registered_parsers = w.mgr.registered_parsers]]
    /\ parser_commands' = [parser_commands EXCEPT ![manager_heap[m].parser] = w.added]
    /\ parser_dest' = [parser_dest EXCEPT ![manager_heap[m].parser] = w.dest]

Commit(m, w) ==
    /\ manager_heap' = [manager_heap EXCEPT ![m] = w.mgr]
    /\ parser_commands' = [parser_commands EXCEPT ![manager_heap[m].parser] = w.added]
    /\ parser_dest' = [parser_dest EXCEPT ![manager_heap[m].parser] = w.dest]

\* manager.register_command(cls)
RegisterCommand(m, cls) ==
    /\ Tick
    /\ m \in DOMAIN manager_heap
    /\ LET w == register_command(World(m), cls) IN
        /\ Commit(m, w)
        /\ last' = Call("register_command", command_name[cls], None, cls,
                        manager_heap[m].parser,
                        IF w.exc = None THEN m ELSE NoObject, w.exc)
    /\ NoExec
    /\ UNCHANGED <<registry_vars, class_vars, history_vars, manager_instances,
                   parser_subparsers, lru>>

\* manager.register_all_commands()
RegisterAllCommands(m) ==
    /\ Tick
    /\ m \in DOMAIN manager_heap
    /\ LET w == register_all_commands(World(m), get_all_commands) IN
        /\ Commit(m, w)
        /\ last' = Call("register_all_commands", None, None, None,
                        manager_heap[m].parser,
                        IF w.exc = None THEN m ELSE NoObject, w.exc)
    /\ NoExec
    /\ UNCHANGED <<registry_vars, class_vars, history_vars, manager_instances,
                   parser_subparsers, lru>>

\* @dataclass with eq=True and frozen=False sets __hash__ to None, and the
\* lru_cache wrapper hashes (self, command_name) before the body runs
ManagerHashable == FALSE

\* lru_cache(maxsize=32)
LruMaxSize == 32

LruHas(key) == \E i \in DOMAIN lru : lru[i][1] = key

LruGet(key) == lru[CHOOSE i \in DOMAIN lru : lru[i][1] = key][2]

\* a hit moves the entry to the most-recent end
LruTouch(key) ==
    LET i == CHOOSE j \in DOMAIN lru : lru[j][1] = key IN
    SubSeq(lru, 1, i - 1) \o SubSeq(lru, i + 1, Len(lru)) \o <<lru[i]>>

\* a miss stores the result, dropping the oldest entry of a full cache
LruPut(key, value) ==
    LET grown == Append(lru, <<key, value>>) IN
    IF Len(grown) > LruMaxSize THEN Tail(grown) ELSE grown

\* The body of get_command_class(command_name) on the manager of w
get_command_class(w, name) ==
    IF ~DictHas(w.mgr.commands, name)
    THEN LET cmd_class == get_command(name) IN
         IF cmd_class # None
         THEN LET w2 == register_command(w, cmd_class) IN
              IF w2.exc # None THEN w2
              ELSE IF DictHas(w2.mgr.commands, name) THEN w2
              ELSE [w2 EXCEPT !.exc = "KeyError"]
         ELSE [w EXCEPT !.exc = "ValueError"]
    ELSE w

\* manager.get_command_class(name)
GetCommandClass(m, name) ==
    /\ Tick
    /\ m \in DOMAIN manager_heap
    /\ IF ~ManagerHashable
       THEN /\ last' = Call("get_command_class", name, None, None,
                            manager_heap[m].parser, None, "TypeError")
            /\ UNCHANGED <<manager_heap, parser_commands, parser_dest, lru>>
       ELSE IF LruHas(<<m, name>>)
       THEN /\ last' = Call("get_command_class", name, None, None,
                            manager_heap[m].parser, LruGet(<<m, name>>), None)
            /\ lru' = LruTouch(<<m, name>>)
            /\ UNCHANGED <<manager_heap, parser_commands, parser_dest>>
       ELSE LET w == get_command_class(World(m), name) IN
            /\ Commit(m, w)
            /\ last' = Call("get_command_class", name, None, None,
                            manager_heap[m].parser,
                            IF w.exc = None THEN DictGet(w.mgr.commands, name)
                            ELSE None, w.exc)
            /\ lru' = IF w.exc = None
                      THEN LruPut(<<m, name>>, DictGet(w.mgr.commands, name))
                      ELSE lru
    /\ NoExec
    /\ UNCHANGED <<registry_vars, class_vars, history_vars, manager_instances,
                   parser_subparsers>>

\* ------------------------------------------------------------ specification
\* -------------------------------------------------------- parse_and_execute
\* The process arguments: a sub-command word (or none) and the value of the
\* command's one option (or the option left out)
NoCommand == "<no command>"
NotGiven == "<not given>"
ArgvCommands == {"a", "b", NoCommand}
ArgvOptions == {"Ada", NotGiven}
\* The declared default of the command's option
FieldDefault == "World"
\* What the selected command's exec() does: return, or raise an error
ExecErrors == {"RuntimeError: boom", "ValueError: bad"}

\* self.parser.parse_args(): the namespace holds the selected name under
\* "command" and, under that name, an instance of the class that
\* add_arguments bound to it; a missing or unknown sub-command is a parser
\* error (SystemExit, which "except Exception" does not catch)
\* (parse_args_Fallback: a missing or unknown word falls back to a command
\* the parser has)
parse_args_Fallback(parser, argv) ==
    IF parser_commands[parser] = {}
    THEN [exc |-> "SystemExit", command |-> None, dests |-> <<>>]
    ELSE LET c == IF argv.command \in parser_commands[parser] THEN argv.command
                  ELSE CHOOSE n \in parser_commands[parser] : TRUE
         IN  [exc |-> None, command |-> c,
              dests |-> <<<<c, [cls |-> DictGet(parser_dest[parser], c),
                               option |-> IF argv.option = NotGiven THEN FieldDefault
                                          ELSE argv.option]>>>>]

parse_args(parser, argv) ==
    IF argv.command = NoCommand \/ argv.command \notin parser_commands[parser]
    THEN [exc |-> "SystemExit", command |-> None, dests |-> <<>>]
    ELSE [exc |-> None, command |-> argv.command,
          dests |-> <<<<argv.command,
                       [cls |-> DictGet(parser_dest[parser], argv.command),
                        option |-> IF argv.option = NotGiven THEN FieldDefault
                                   ELSE argv.option]>>>>]

\* command_config.exec() is called once; each entry is the instance it ran
\* on and what the run raised
\* (ExecCalls_Twice: the command run a second time)
ExecCalls_Twice(command_config, outcome) ==
    <<[self |-> command_config, raised |-> outcome],
      [self |-> command_config, raised |-> outcome]>>

ExecCalls(command_config, outcome) ==
    <<[self |-> command_config, raised |-> outcome]>>

\* except Exception as e: LOGGER.error(...); raise
\* (Reraise_Swallow: the error logged and dropped)
Reraise_Swallow(e) == None

Reraise(e) == e

\* manager.parse_and_execute()
ParseAndExecute(m, argv, outcome) ==
    /\ Tick
    /\ m \in DOMAIN manager_heap
    /\ LET parser == manager_heap[m].parser
           args == parse_args(parser, argv)
       IN  /\ sys_argv' = argv
           /\ IF args.exc # None
              THEN /\ exec_log' = <<>>
                   /\ last' = Call("parse_and_execute", None, None, None, parser,
                                   NoObject, args.exc)
              ELSE LET command_config == DictGet(args.dests, args.command) IN
                   /\ exec_log' = ExecCalls(command_config, outcome)
                   /\ last' = Call("parse_and_execute", args.command, None,
                                   command_config.cls, parser, NoObject,
                                   IF outcome = None THEN None ELSE Reraise(outcome))
    /\ NoScan
    /\ UNCHANGED <<registry_vars, class_vars, history_vars, manager_vars>>

\* -------------------------------------------------------- discover_commands
\* The scanned tree.  A path is its directories below the root and its file
\* name, the name split into first character, rest of the stem and suffix.
File(dir, first, rest, suffix) ==
    [dir |-> dir, first |-> first, rest |-> rest, suffix |-> suffix]
cmd1_py == File(<<>>, "c", "md1", ".py")
cmd2_py == File(<<"sub">>, "c", "md2", ".py")
skip_py == File(<<>>, "_", "skip", ".py")
init_py == File(<<>>, "_", "_init__", ".py")
main_py == File(<<"sub">>, "_", "_main__", ".py")
notes_txt == File(<<>>, "n", "otes", ".txt")
Files == {cmd1_py, cmd2_py, skip_py, init_py, main_py, notes_txt}

\* The command each file declares with @command(name, "h") at its top level
FileCommands ==
    (cmd1_py :> [name |-> "x", cls |-> "F1"]) @@
    (cmd2_py :> [name |-> "z", cls |-> "F2"]) @@
    (skip_py :> [name |-> "y", cls |-> "F3"]) @@
    (init_py :> [name |-> "i", cls |-> "F4"]) @@
    (main_py :> [name |-> "m", cls |-> "F5"])
FileClasses == {FileCommands[f].cls : f \in DOMAIN FileCommands}

\* package_dir.rglob("*.py") filtered by not file.name.startswith("_")
IsPythonFile(f) == f.suffix = ".py"
StartsWithUnderscore(f) == f.first = "_"
find_python_files == {f \in Files : IsPythonFile(f) /\ ~StartsWithUnderscore(f)}

\* rglob yields the files in the order the file system lists them
ScanOrders(found) ==
    {o \in [1..Cardinality(found) -> found] :
        \A i, j \in DOMAIN o : i # j => o[i] # o[j]}

\* What can be wrong with a file: nothing, a syntax error, a name that is not
\* defined, an import of a module that is not installed; the fault sits
\* before the file's command declaration
Faults == {"ok", "syntax", "reference", "missing"}
FaultError(fault) ==
    CASE fault = "syntax" -> "SyntaxError"
      [] fault = "reference" -> "NameError"
      [] fault = "missing" -> "ModuleNotFoundError"
      [] OTHER -> None
Fault(f) == IF f \in DOMAIN file_fault THEN file_fault[f] ELSE "ok"

\* The root passed to discover_commands: the same directory, as an absolute
\* path below the working directory or as a relative path
Roots == {"/cwd/cmds", "cmds"}
\* file.relative_to(Path(PROJECT_ROOT)) succeeds only for an absolute path
\* below the working directory, and raises ValueError otherwise
RelativeToCwdOk(root) == root = "/cwd/cmds"

\* Paths that are no directory: one that does not exist, one that is a file
BadRoots == {"/cwd/nope", "/cwd/cmds/cmd1.py"}
IsDir(root) == root \in Roots
\* Path(package_path).rglob("*.py") yields nothing for a path that does not
\* exist or is a file, and raises nothing
python_files_of(root) == IF IsDir(root) THEN find_python_files ELSE {}

\* The interpreter state a scan works on
Loading ==
    [cache |-> TheCache, command_name |-> command_name,
     command_help |-> command_help, names |-> {}, sys_modules |-> sys_modules,
     attempted |-> <<>>, loads |-> <<>>, exc |-> None]

\* The top-level code of file f runs: its @command(...) registers its class,
\* unless the fault stops it first
run_file(s, f, via) ==
    LET s1 == [s EXCEPT !.loads = Append(@, [file |-> f, via |-> via])]
        c == FileCommands[f]
    IN  IF Fault(f) # "ok" THEN [s1 EXCEPT !.exc = FaultError(Fault(f))]
        ELSE [s1 EXCEPT !.cache = RegisterCache(@, c.name, c.cls),
                        !.command_name = Stamp(@, c.cls, c.name),
                        !.command_help = Stamp(@, c.cls, "h"),
                        !.names = @ \cup {c.name}]

\* import_module(module_path): a module already in sys.modules is returned as
\* it is; otherwise the package of the root is imported first (its
\* __init__.py runs), then the file; a module that fails is not kept
import_module(s, f) ==
    IF f \in s.sys_modules THEN s
    ELSE LET s1 == IF init_py \in s.sys_modules THEN s
                   ELSE [run_file(s, init_py, "package") EXCEPT
                            !.sys_modules = @ \cup {init_py}]
             s2 == run_file(s1, f, "import")
         IN  IF s2.exc = None THEN [s2 EXCEPT !.sys_modules = @ \cup {f}] ELSE s2

\* spec_from_file_location / module_from_spec / exec_module inside
\* "except Exception": the file runs under its stem, outside sys.modules, and
\* whatever it raises is logged and dropped
load_from_spec(s, f) == [run_file(s, f, "spec") EXCEPT !.exc = None]

\* _import_module_from_file(file): "except (ImportError, ValueError)" around
\* the dotted import, then the load from the file path
import_module_from_file(s, f, root) ==
    LET s0 == [s EXCEPT !.attempted = Append(@, f)] IN
    IF ~RelativeToCwdOk(root) THEN load_from_spec(s0, f)
    ELSE LET s1 == import_module(s0, f) IN
         IF s1.exc \in {"ImportError", "ModuleNotFoundError", "ValueError"}
         THEN load_from_spec([s1 EXCEPT !.exc = None], f)
         ELSE s1

\* for file in python_files: _import_module_from_file(file)
RECURSIVE import_each(_, _, _)
import_each(s, python_files, root) ==
    IF python_files = <<>> \/ s.exc # None THEN s
    ELSE import_each(import_module_from_file(s, Head(python_files), root),
                     Tail(python_files), root)

\* discover_commands(root), the files found in the order python_files
DiscoverCommands(root, python_files) ==
    /\ Tick
    /\ COMMAND_REGISTRY # NoObject
    /\ LET s == import_each(Loading, python_files, root) IN
        /\ registry_heap' = [registry_heap EXCEPT ![COMMAND_REGISTRY] = s.cache]
        /\ command_name' = s.command_name
        /\ command_help' = s.command_help
        /\ names_since_clear' = names_since_clear \cup s.names
        /\ ever_registered' = ever_registered \cup s.names
        /\ sys_modules' = s.sys_modules
        /\ scan' = [root |-> root, found |-> python_files,
                    attempted |-> s.attempted, loads |-> s.loads]
        /\ last' = Call("discover_commands", None, None, None, None, None, s.exc)
    /\ sys_argv' = <<>>
    /\ exec_log' = <<>>
    /\ UNCHANGED <<registry_instance, COMMAND_REGISTRY, manager_vars, file_fault,
                   fixture>>

\* The state shared by every start of the process
InitProcess ==
    /\ command_name = [k \in Classes \cup FileClasses |-> ""]
    /\ command_help = [k \in Classes \cup FileClasses |-> ""]
    /\ names_since_clear = {}
    /\ ever_registered = {}
    /\ manager_instances = [p \in Parsers |-> NoObject]
    /\ manager_heap = <<>>
    /\ parser_subparsers = [p \in Parsers |-> FALSE]
    /\ parser_commands = [p \in Parsers |-> {}]
    /\ lru = <<>>
    /\ parser_dest = [p \in Parsers |-> <<>>]
    /\ sys_argv = <<>>
    /\ exec_log = <<>>
    /\ sys_modules = {}
    /\ scan = <<>>
    /\ fixture = [in_test |-> FALSE, original_cache |-> <<>>]

Init ==
    /\ registry_instance = NoObject
    /\ COMMAND_REGISTRY = NoObject
    /\ registry_heap = <<>>
    /\ last = Call("start", None, None, None, None, None, None)
    /\ calls = 0
    /\ file_fault = [f \in find_python_files |-> "ok"]
    /\ InitProcess

Next ==
    \/ ImportRegistryModule
    \/ RegistryCtor
    \/ RegistryGetInstance
    \/ \E n \in Names, h \in HelpTexts, k \in Classes : Register(n, h, k)
    \/ \E n \in Names : GetCommand(n)
    \/ GetAllCommands
    \/ ClearRegistry
    \/ \E n \in Names, h \in HelpTexts \cup {Omitted}, k \in Classes : Command(n, h, k)
    \/ \E p \in Parsers : ManagerGetInstance(p)
    \/ \E p \in Parsers : ManagerCtor(p)
    \/ \E m \in 1..MaxManagerObjects, k \in Classes : RegisterCommand(m, k)
    \/ \E m \in 1..MaxManagerObjects : RegisterAllCommands(m)
    \/ \E m \in 1..MaxManagerObjects, n \in Names : GetCommandClass(m, n)
    \/ \E m \in 1..MaxManagerObjects, c \in ArgvCommands, o \in ArgvOptions,
          e \in ExecErrors \cup {None} :
            ParseAndExecute(m, [command |-> c, option |-> o], e)

Spec == Init /\ [][Next]_vars

\* A process that has imported py_clean_cli and then scans a command tree,
\* whose files may be faulty, any number of times
InitDiscover ==
    /\ registry_instance = 1
    /\ COMMAND_REGISTRY = 1
    /\ registry_heap = <<<<>>>>
    /\ last = Call("import", None, None, None, None, 1, None)
    /\ calls = 1
    /\ file_fault \in [find_python_files -> Faults]
    /\ InitProcess

NextDiscover ==
    \/ \E root \in Roots \cup BadRoots :
            \E o \in ScanOrders(python_files_of(root)) : DiscoverCommands(root, o)
    \/ ClearRegistry

SpecDiscover == InitDiscover /\ [][NextDiscover]_vars

\* ---------------------------------------------------------- reset_registry
\* original_cache = COMMAND_REGISTRY._command_cache.copy()
CopyCache(cache) == cache

\* COMMAND_REGISTRY._command_cache = original_cache
\* (RestoreCache_Skip: the assignment left out)
RestoreCache_Skip(cache, original_cache) == cache

RestoreCache(cache, original_cache) == original_cache

\* The fixture up to its yield: save a copy, clear the registry
FixtureSetup ==
    /\ Tick
    /\ COMMAND_REGISTRY # NoObject
    /\ ~fixture.in_test
    /\ fixture' = [in_test |-> TRUE, original_cache |-> CopyCache(TheCache)]
    /\ registry_heap' = [registry_heap EXCEPT ![COMMAND_REGISTRY] = ClearCache(@)]
    /\ names_since_clear' = {}
    /\ last' = Call("reset_registry.setup", None, None, None, None, None, None)
    /\ sys_argv' = <<>> /\ exec_log' = <<>> /\ scan' = <<>>
    /\ UNCHANGED <<registry_instance, COMMAND_REGISTRY, class_vars, ever_registered,
                   manager_vars, file_fault, sys_modules>>

\* The fixture after its yield: put the saved mapping back
FixtureTeardown ==
    /\ Tick
    /\ fixture.in_test
    /\ fixture' = [fixture EXCEPT !.in_test = FALSE]
    /\ registry_heap' = [registry_heap EXCEPT ![COMMAND_REGISTRY] =
                            RestoreCache(@, fixture.original_cache)]
    /\ last' = Call("reset_registry.teardown", None, None, None, None, None, None)
    /\ sys_argv' = <<>> /\ exec_log' = <<>> /\ scan' = <<>>
    /\ UNCHANGED <<registry_instance, COMMAND_REGISTRY, class_vars, history_vars,
                   manager_vars, file_fault, sys_modules>>

\* A test session: registry calls before, inside and after the tests
InitFixture ==
    /\ registry_instance = 1
    /\ COMMAND_REGISTRY = 1
    /\ registry_heap = <<<<>>>>
    /\ last = Call("import", None, None, None, None, 1, None)
    /\ calls = 1
    /\ file_fault = [f \in find_python_files |-> "ok"]
    /\ InitProcess

NextFixture ==
    \/ FixtureSetup
    \/ FixtureTeardown
    \/ \E n \in Names, h \in HelpTexts, k \in Classes : Register(n, h, k)
    \/ ClearRegistry
    \/ RegistryGetInstance
    \/ RegistryCtor

SpecFixture == InitFixture /\ [][NextFixture]_vars

\* ------------------------------------------------------------- package_cli
\* package_cli(package_path) runs its statements one after the other; where
\* it stands is read off the last call it made: nowhere ("idle") before it is
\* entered, after an exception has left it and after parse_and_execute
\* (cli_pc_ParserFirst: the parser and its manager made before the scan)
cli_pc_ParserFirst ==
    CASE last.exc # None -> "idle"
      [] last.op = "package_cli" -> "get_instance"
      [] last.op = "CommandsManager.get_instance" -> "discover_commands"
      [] last.op = "discover_commands" -> "register_all_commands"
      [] last.op = "register_all_commands" -> "parse_and_execute"
      [] OTHER -> "idle"

cli_pc ==
    CASE last.exc # None -> "idle"
      [] last.op = "package_cli" -> "discover_commands"
      [] last.op = "discover_commands" -> "get_instance"
      [] last.op = "CommandsManager.get_instance" -> "register_all_commands"
      [] last.op = "register_all_commands" -> "parse_and_execute"
      [] OTHER -> "idle"

\* if not Path(package_path).is_dir(): raise ValueError(...)
\* (package_path_error_Unchecked: the test left out)
package_path_error_Unchecked(package_path) == None

package_path_error(package_path) ==
    IF IsDir(package_path) THEN None ELSE "ValueError"

\* package_cli(package_path) is entered and tests its path
PackageCli(package_path) ==
    /\ Tick
    /\ cli_pc = "idle"
    /\ last' = Call("package_cli", package_path, None, None, None, None,
                    package_path_error(package_path))
    /\ NoExec
    /\ UNCHANGED <<registry_vars, class_vars, history_vars, manager_vars>>

\* discover_commands(package_path)
CliDiscover ==
    /\ cli_pc = "discover_commands"
    /\ \E o \in ScanOrders(python_files_of(last.name)) : DiscoverCommands(last.name, o)

\* parser = ArgumentParser(prog=module_name), a new object;
\* manager = CommandsManager.get_instance(parser)
NewParser(parser) ==
    ~parser_subparsers[parser] /\ manager_instances[id(parser)] = NoObject
CliGetInstance ==
    /\ cli_pc = "get_instance"
    /\ \E parser \in Parsers : NewParser(parser) /\ ManagerGetInstance(parser)

\* manager.register_all_commands()
CliRegisterAll ==
    /\ cli_pc = "register_all_commands"
    /\ RegisterAllCommands(last.result)

\* The sub-command words given to a program built on the scanned tree
CliArgvCommands == {"x", "z", NoCommand}

\* manager.parse_and_execute()
CliParseAndExecute ==
    /\ cli_pc = "parse_and_execute"
    /\ \E c \in CliArgvCommands, o \in ArgvOptions, e \in ExecErrors \cup {None} :
            ParseAndExecute(last.result, [command |-> c, option |-> o], e)

NextCli ==
    \/ \E package_path \in Roots \cup BadRoots : PackageCli(package_path)
    \/ CliDiscover
    \/ CliGetInstance
    \/ CliRegisterAll
    \/ CliParseAndExecute

\* A process that has imported py_clean_cli and calls package_cli
SpecCli == InitDiscover /\ [][NextCli]_vars

\* ------------------------------------------------------------------ claims
ManagerCalls == {"CommandsManager.get_instance", "CommandsManager"}

\* C1: right after COMMAND_REGISTRY.register(name, help_text, cls),
\* get_command(name) is cls, and cls.command_name and cls.command_help are
\* the name and the help text passed in.
C1_RegisterThenGet ==
    last.op = "register" =>
        /\ get_command(last.name) = last.cls
        /\ command_name[last.cls] = last.name
        /\ command_help[last.cls] = last.help

\* C1 witness: a register call that replaced the class held under its name
\* by another class
C1_Witness ==
    /\ last.op = "register"
    /\ calls >= 3
    /\ Len(TheCache) = 1
    /\ last.name = "a"
    /\ last.cls = "K2"
    /\ command_name["K1"] = "a"

\* C2: registering two classes under one name never raises and leaves the
\* second retrievable, and get_all_commands() is as long as the number of
\* distinct names registered since the last clear_registry().
C2_OverwriteAndCount ==
    COMMAND_REGISTRY # NoObject =>
        /\ last.op \in {"register", "command"} =>
              (last.exc = None /\ get_command(last.name) = last.cls)
        /\ Len(get_all_commands) = Cardinality(names_since_clear)

\* C3: after clear_registry() get_all_commands() is empty and get_command(n)
\* is None for every n; get_command of a name never registered is None.
C3_ClearEmpties ==
    /\ last.op = "clear_registry" =>
          (get_all_commands = <<>> /\ \A n \in Names : get_command(n) = None)
    /\ COMMAND_REGISTRY # NoObject =>
          \A n \in Names \ ever_registered : get_command(n) = None

\* C3 witness: clear_registry() after two names were registered, a third
\* name never having been
C3_Witness ==
    /\ last.op = "clear_registry"
    /\ ever_registered = {"a", "b"}
    /\ registry_heap[COMMAND_REGISTRY] = <<>>

\* C4: only register (also through the decorator) and clear_registry change
\* the registry's name -> class mapping; every other call leaves it as it was.
C4_OnlyRegisterAndClearMutate ==
    [][(COMMAND_REGISTRY # NoObject
        /\ last'.op \notin {"register", "command", "clear_registry"})
       => TheCache' = TheCache]_vars

\* C5: there is one registry object: CommandRegistryHelper() and
\* CommandRegistryHelper.get_instance() always return it, and it is
\* COMMAND_REGISTRY.
C5_OneRegistryInstance ==
    /\ Len(registry_heap) <= 1
    /\ COMMAND_REGISTRY # NoObject => registry_instance = COMMAND_REGISTRY
    /\ last.op \in {"CommandRegistryHelper", "get_instance"} =>
          (last.exc = None /\ last.result = COMMAND_REGISTRY)

\* C5 witness: a third construction of the registry, after the module's own
\* and one more
C5_Witness ==
    /\ last.op \in {"CommandRegistryHelper", "get_instance"}
    /\ calls >= 3
    /\ ever_registered = {}
    /\ \A p \in Parsers : manager_instances[p] = NoObject

\* C6: @command(name, help_text) on a class registers it under name and
\* returns that class itself; with help_text omitted the stamped help text is
\* the empty string.
C6_DecoratorRegistersAndReturns ==
    last.op = "command" =>
        /\ get_command(last.name) = last.cls
        /\ last.result = last.cls
        /\ command_name[last.cls] = last.name
        /\ last.help = Omitted => command_help[last.cls] = ""
        /\ last.help # Omitted => command_help[last.cls] = last.help

\* C6 witness: the decorator without help text, applied to a class that was
\* decorated before
C6_Witness ==
    /\ last.op = "command"
    /\ last.help = Omitted
    /\ Len(TheCache) = 2
    /\ \A i \in DOMAIN TheCache : TheCache[i][2] = last.cls

\* C7: when one class is in the registry under two different names (it was
\* decorated twice), get_command_class of either name on a manager returns
\* that class without error.
C7_BothNamesAddressable ==
    \A k \in Classes :
        (/\ COMMAND_REGISTRY # NoObject
         /\ \E n1, n2 \in Names :
               n1 # n2 /\ get_command(n1) = k /\ get_command(n2) = k
         /\ last.op = "get_command_class"
         /\ get_command(last.name) = k)
        => (last.exc = None /\ last.result = k)

\* C8: CommandsManager.get_instance(p) and CommandsManager(p) return the one
\* manager of parser p, the same on every call, bound to p, and the managers
\* of two distinct parsers are distinct objects.
C8_SingletonPerParser ==
    [][last'.op \in ManagerCalls =>
          /\ last'.exc = None
          /\ last'.result = manager_instances'[last'.parser]
          /\ manager_instances[last'.parser] # NoObject =>
                last'.result = manager_instances[last'.parser]
          /\ manager_heap'[last'.result].parser = last'.parser
          /\ \A p, q \in Parsers :
                (p # q /\ manager_instances'[p] # NoObject)
                => manager_instances'[p] # manager_instances'[q]]_vars

\* C9: get_instance(parser) on a parser that has a manager succeeds and
\* returns that manager with its commands, registered names and sub-command
\* builder as they were.
C9_GetInstanceLeavesManagerUnchanged ==
    [][(last'.op = "CommandsManager.get_instance"
        /\ manager_instances[last'.parser] # NoObject)
       => (/\ last'.exc = None
           /\ last'.result = manager_instances[last'.parser]
           /\ manager_heap' = manager_heap)]_vars

\* C10: a name is in a manager's registered set if and only if a sub-command
\* of that name has been added to the manager's parser.
C10_RegisteredIffSubcommand ==
    \A m \in DOMAIN manager_heap :
        manager_heap[m].registered_parsers
            = parser_commands[manager_heap[m].parser]

\* The keys of a dict
DictKeys(d) == {d[i][1] : i \in DOMAIN d}

\* C11: register_command always returns the manager itself; when the class's
\* command_name is already in the registered set nothing changes (commands,
\* registered set, the parser's sub-commands); otherwise exactly that name is
\* added to commands (bound to the class) and to the registered set.
C11_RegisterCommandIdempotent ==
    [][last'.op = "register_command" =>
          LET m == manager_instances[last'.parser]
              before == manager_heap[m]
              after == manager_heap'[m]
          IN  /\ last'.exc = None
              /\ last'.result = m
              /\ last'.name \in before.registered_parsers =>
                    (after = before /\ parser_commands' = parser_commands)
              /\ last'.name \notin before.registered_parsers =>
                    /\ after.registered_parsers
                          = before.registered_parsers \cup {last'.name}
                    /\ DictKeys(after.commands)
                          = DictKeys(before.commands) \cup {last'.name}
                    /\ DictGet(after.commands, last'.name) = last'.cls
                    /\ \A n \in DictKeys(before.commands) \ {last'.name} :
                          DictGet(after.commands, n) = DictGet(before.commands, n)]_vars

\* C12: after register_all_commands() on a manager, every name that is a key
\* of the registry is a key of the manager's commands and a sub-command of its
\* parser.
C12_RegisterAllCoversRegistry ==
    last.op = "register_all_commands" =>
        \A n \in DictKeys(TheCache) :
            /\ DictHas(manager_heap[manager_instances[last.parser]].commands, n)
            /\ n \in parser_commands[last.parser]

\* C13: register_all_commands() on a manager whose parser has no sub-command
\* yet, while the registry is empty, does not raise, returns the manager and
\* leaves it with no registered command.
C13_RegisterAllOnEmptyRegistry ==
    (/\ last.op = "register_all_commands"
     /\ TheCache = <<>>
     /\ parser_commands[last.parser] = {})
    => LET m == manager_instances[last.parser] IN
       /\ last.exc = None
       /\ last.result = m
       /\ manager_heap[m].commands = <<>>
       /\ manager_heap[m].registered_parsers = {}

\* C13 witness: register_all_commands() right after the manager of a fresh
\* parser was built, the registry being empty
C13_Witness ==
    /\ last.op = "register_all_commands"
    /\ TheCache = <<>>
    /\ parser_commands[last.parser] = {}
    /\ calls = 3
    /\ last.exc = None

\* C14: get_command_class(name) returns the manager's own entry when name is
\* in commands; when name is not in the manager but is in the registry it
\* returns the registry's class, and afterwards name is in the manager's
\* commands and registered set.
C14_GetCommandClassLazy ==
    [][last'.op = "get_command_class" =>
          LET m == manager_instances[last'.parser]
              n == last'.name
          IN  /\ DictHas(manager_heap[m].commands, n) =>
                    /\ last'.exc = None
                    /\ last'.result = DictGet(manager_heap[m].commands, n)
              /\ (~DictHas(manager_heap[m].commands, n) /\ get_command(n) # None) =>
                    /\ last'.exc = None
                    /\ last'.result = get_command(n)
                    /\ DictHas(manager_heap'[m].commands, n)
                    /\ n \in manager_heap'[m].registered_parsers]_vars

\* C15: get_command_class(name) for a name in neither the manager's commands
\* nor the registry raises ValueError for that name and leaves the manager's
\* commands and registered set unchanged.
C15_GetCommandClassUnknown ==
    [][(/\ last'.op = "get_command_class"
        /\ ~DictHas(manager_heap[manager_instances[last'.parser]].commands,
                    last'.name)
        /\ get_command(last'.name) = None)
       => (last'.exc = "ValueError" /\ manager_heap' = manager_heap)]_vars

\* C16: parse_and_execute() with process arguments that select a registered
\* command name runs exec exactly once, on an instance of the class bound to
\* that name whose option holds the given value, or the declared default when
\* the option is left out; no other command runs.
C16_ExecOnceOnSelected ==
    (last.op = "parse_and_execute"
        /\ sys_argv.command \in parser_commands[last.parser]) =>
        /\ Len(exec_log) = 1
        /\ exec_log[1].self.cls = DictGet(parser_dest[last.parser], sys_argv.command)
        /\ LET mgr == manager_heap[manager_instances[id(last.parser)]] IN
             DictHas(mgr.commands, sys_argv.command) =>
                exec_log[1].self.cls = DictGet(mgr.commands, sys_argv.command)
        /\ exec_log[1].self.option =
             IF sys_argv.option = NotGiven THEN FieldDefault ELSE sys_argv.option

\* Two commands on one parser, the second selected without its option
C16_Witness ==
    /\ last.op = "parse_and_execute"
    /\ parser_commands[last.parser] = {"a", "b"}
    /\ DictGet(parser_dest[last.parser], "a") = "K1"
    /\ sys_argv = [command |-> "b", option |-> NotGiven]
    /\ exec_log = <<[self |-> [cls |-> "K2", option |-> FieldDefault],
                    raised |-> None]>>

\* C17: an error raised by the selected command's exec reaches the caller of
\* parse_and_execute() as that same error, and the command is not run again.
C17_ExecErrorPropagates ==
    (last.op = "parse_and_execute" /\ exec_log # <<>>
        /\ exec_log[1].raised # None) =>
        /\ last.exc = exec_log[1].raised
        /\ Len(exec_log) = 1

C17_Witness ==
    /\ last.op = "parse_and_execute"
    /\ Len(exec_log) = 1
    /\ exec_log[1].raised = "ValueError: bad"
    /\ last.exc = "ValueError: bad"

\* C18: register_command, register_all_commands and get_command_class on one
\* manager leave the commands mapping and the registered set of every manager
\* built on another parser as they were.
C18_ManagersIndependent ==
    [][last'.op \in {"register_command", "register_all_commands", "get_command_class"} =>
        \A m2 \in DOMAIN manager_heap :
            manager_heap[m2].parser # last'.parser =>
                /\ manager_heap'[m2].commands = manager_heap[m2].commands
                /\ manager_heap'[m2].registered_parsers =
                       manager_heap[m2].registered_parsers]_vars

\* Two managers, a command just registered on one and absent from the other
C18_Witness ==
    /\ last.op = "register_command"
    /\ last.exc = None
    /\ Len(manager_heap) = 2
    /\ \E m2 \in DOMAIN manager_heap :
        /\ manager_heap[m2].parser # last.parser
        /\ manager_heap[m2].commands = <<>>
        /\ manager_heap[m2].subparsers # None
    /\ manager_heap[manager_instances[id(last.parser)]].commands = <<<<"a", "K1">>>>

\* How many times the last scan handed file f to _import_module_from_file,
\* and how many times a loader ran the file
Attempts(f) == Cardinality({i \in DOMAIN scan.attempted : scan.attempted[i] = f})
Loads(f) == Cardinality({i \in DOMAIN scan.loads : scan.loads[i].file = f})

\* C19: after discover_commands(root) has returned, the command of every
\* sound .py file under root whose name does not start with an underscore is
\* in the registry, and the command of a file whose name starts with an
\* underscore (_skip.py, __init__.py, __main__.py) is not.
C19_LoadsExactlyNonUnderscore ==
    (last.op = "discover_commands" /\ IsDir(scan.root) /\ last.exc = None) =>
        \A f \in DOMAIN FileCommands :
            LET c == FileCommands[f] IN
            /\ (f.suffix = ".py" /\ f.first # "_" /\ Fault(f) = "ok") =>
                    (DictHas(TheCache, c.name) /\ DictGet(TheCache, c.name) = c.cls)
            /\ f.first = "_" => ~DictHas(TheCache, c.name)

\* C20: in one discover_commands(root) call every .py file under root whose
\* name does not start with an underscore is handed to the loader exactly
\* once, none is left out, and no file is run more than once whichever
\* loading path it takes.
C20_EachFileAttemptedOnce ==
    (last.op = "discover_commands" /\ IsDir(scan.root)) =>
        \A f \in Files :
            (f.suffix = ".py" /\ f.first # "_") =>
                /\ Attempts(f) = 1
                /\ Loads(f) <= 1

\* C21: a file that fails to load (syntax error, undefined name, missing
\* dependency) does not make discover_commands raise, and the commands of
\* the sound files are in the registry afterwards.
C21_LoadFailureIsContained ==
    (last.op = "discover_commands" /\ IsDir(scan.root)) =>
        /\ last.exc = None
        /\ \A f \in find_python_files :
              Fault(f) = "ok" => DictHas(TheCache, FileCommands[f].name)

\* C22: discover_commands(path) with a path that does not exist or is not a
\* directory raises an error to its caller.
C22_BadPathRaises ==
    (last.op = "discover_commands" /\ ~IsDir(scan.root)) => last.exc # None

\* C23: package_cli(package_path) with a path that is not a directory raises
\* ValueError at once: no file is loaded, the registry is unchanged, no
\* parser or manager is created and no command is executed.
C23_InvalidPathRaisesAtOnce ==
    [][(last'.op = "package_cli" /\ ~IsDir(last'.name)) =>
        /\ last'.exc = "ValueError"
        /\ cli_pc' = "idle"
        /\ scan' = <<>> /\ exec_log' = <<>>
        /\ UNCHANGED <<registry_vars, class_vars, sys_modules, manager_vars>>]_vars

\* An invalid path given while the registry holds a command of an earlier call
C23_Witness ==
    /\ last.op = "package_cli"
    /\ last.name \in BadRoots
    /\ last.exc = "ValueError"
    /\ TheCache # <<>>
    /\ manager_heap = <<>>

\* C24: parse_and_execute() with process arguments that name no sub-command,
\* or one that is not registered on the manager's parser, ends in the
\* parser's error exit, and no command's exec runs.
C24_SubcommandMandatory ==
    (last.op = "parse_and_execute"
        /\ sys_argv.command \notin parser_commands[last.parser]) =>
        /\ last.exc = "SystemExit"
        /\ exec_log = <<>>

\* A parser that has command "a", called with command "b"
C24_Witness ==
    /\ last.op = "parse_and_execute"
    /\ parser_commands[last.parser] = {"a"}
    /\ sys_argv.command = "b"
    /\ last.exc = "SystemExit"

\* C25: in every reachable state no registry entry has the empty string as
\* its name, and no registered class has the empty string as command_name.
C25_NamesNonEmpty ==
    COMMAND_REGISTRY # NoObject =>
        \A i \in DOMAIN TheCache :
            TheCache[i][1] # "" /\ command_name[TheCache[i][2]] # ""

\* C26: inside package_cli the steps come in this order, each at most once
\* per call: the scan right after the path test, the parser and its manager
\* right after the scan has returned, register_all_commands right after the
\* manager exists, parse_and_execute right after the sub-command of every
\* class of the registry is on the manager, and exec only inside
\* parse_and_execute.
C26_StepsInOrder ==
    [][/\ last'.op = "discover_commands" =>
            (last.op = "package_cli" /\ last.exc = None)
       /\ last'.op = "CommandsManager.get_instance" =>
            /\ last.op = "discover_commands" /\ last.exc = None
            /\ manager_instances[id(last'.parser)] = NoObject
            /\ ~parser_subparsers[last'.parser]
       /\ last'.op = "register_all_commands" =>
            (last.op = "CommandsManager.get_instance" /\ last.exc = None)
       /\ last'.op = "parse_and_execute" =>
            /\ last.op = "register_all_commands" /\ last.exc = None
            /\ \A i \in DOMAIN TheCache :
                  LET cls == TheCache[i][2] IN
                  /\ command_name[cls] \in parser_commands[last'.parser]
                  /\ DictHas(manager_heap[last.result].commands, command_name[cls])
       /\ exec_log' # <<>> => last'.op = "parse_and_execute"]_vars

\* A whole run: two files scanned, their commands registered, "x" executed
C26_Witness ==
    /\ last.op = "parse_and_execute"
    /\ last.exc = None
    /\ Len(exec_log) = 1
    /\ exec_log[1].self.cls = "F1"
    /\ {"x", "z"} \subseteq parser_commands[last.parser]
    /\ DictHas(TheCache, "z")

\* C27: the reset_registry fixture saves the registry's mapping and empties
\* the registry before a test, keeps the saved mapping through whatever the
\* test does, and leaves the registry with exactly that mapping after the test.
C27_FixtureRoundTrip ==
    [][/\ last'.op = "reset_registry.setup" =>
            (TheCache' = <<>> /\ fixture'.original_cache = TheCache)
       /\ (fixture.in_test /\ fixture'.in_test) =>
            fixture'.original_cache = fixture.original_cache
       /\ last'.op = "reset_registry.teardown" =>
            TheCache' = fixture.original_cache]_vars

\* A test that registered another name and re-created the registry, after a
\* session that had "a" registered: "a" -> K1 is back, "b" is gone
C27_Witness ==
    /\ last.op = "reset_registry.teardown"
    /\ TheCache = <<<<"a", "K1">>>>
    /\ "b" \in ever_registered
    /\ ~fixture.in_test

\* C28: in every reachable state the class stored under a name n has
\* command_name equal to n, and right after a registration under n it has
\* command_help equal to the help text just registered for n.
C28_EntriesSelfDescribing ==
    COMMAND_REGISTRY # NoObject =>
        /\ \A i \in DOMAIN TheCache : command_name[TheCache[i][2]] = TheCache[i][1]
        /\ last.op \in {"register", "command"} =>
              command_help[get_command(last.name)] = DecoratorHelp(last.help)

\* C29: the memoized get_command_class(name) ends as its body run without
\* the cache would end on the same manager in the same state: the same
\* class returned, or the same error raised.
C29_MemoizationTransparent ==
    [][last'.op = "get_command_class" =>
          LET w == get_command_class(World(manager_instances[last'.parser]),
                                     last'.name)
          IN  /\ last'.exc = w.exc
              /\ w.exc = None =>
                    last'.result = DictGet(w.mgr.commands, last'.name)]_vars

\* C30: whenever discover_commands(root) has returned, whatever was
\* discovered or cleared before, the command of every sound .py file under
\* root whose name does not start with an underscore is in the registry.
C30_DiscoverRepopulates ==
    (last.op = "discover_commands" /\ IsDir(scan.root) /\ last.exc = None) =>
        \A f \in find_python_files :
            Fault(f) = "ok" =>
                DictGet(TheCache, FileCommands[f].name) = FileCommands[f].cls

====
